---- MODULE Spec2Model ----
(***************************************************************************)
(* Furnitron: the scrape-extract-classify-aggregate pipeline of            *)
(* furnitron/web_scraper/main.py, the search indexer of swhoosh.py and the *)
(* "Index Data" loop of Welcome.py.                                        *)
(*                                                                         *)
(* Text is modelled character by character: a Python str is a sequence of  *)
(* one-character strings, so strip(), split(), startswith() and the file   *)
(* line iterator are computed the way Python computes them.                *)
(***************************************************************************)
EXTENDS Integers, Sequences, FiniteSets, TLC

(***************************************************************************)
(* Bounds of the model.                                                    *)
(***************************************************************************)
MaxUrls == 2          \* length of the URL list of a run
MaxFiles == 2         \* artifact files in the output directory
MaxWordsIn == 12      \* words of a leaf text given to the Candidate Filter
MaxFilterList == 2    \* length of the list given to the Candidate Filter
MaxCandidates == 4    \* length of the list given to the Batch Classifier
MaxBatch == 3         \* batch sizes tried besides BATCH_SIZE

(***************************************************************************)
(* Program constants.                                                      *)
(***************************************************************************)
BATCH_SIZE == 64
MaxWords == 10

(***************************************************************************)
(* Characters and Python's string primitives.                              *)
(***************************************************************************)
Whitespace == {" ", "\n", "\t"}

NL == "\n"

Marker == <<"U", "R", "L", ":">>

RECURSIVE lstrip(_)
lstrip(s) ==
  IF s = <<>> THEN <<>>
  ELSE IF Head(s) \in Whitespace THEN lstrip(Tail(s)) ELSE s

RECURSIVE rstrip(_)
rstrip(s) ==
  IF s = <<>> THEN <<>>
  ELSE IF s[Len(s)] \in Whitespace THEN rstrip(SubSeq(s, 1, Len(s) - 1)) ELSE s

strip(s) == rstrip(lstrip(s))

startswith(s, p) == Len(s) >= Len(p) /\ SubSeq(s, 1, Len(p)) = p

\* str.split(sep): cut at every non-overlapping occurrence of sep, scanning
\* from the left; the pieces between the occurrences, empty pieces included.
RECURSIVE split_sep_from(_, _, _)
split_sep_from(s, sep, cur) ==
  IF s = <<>> THEN <<cur>>
  ELSE IF startswith(s, sep)
       THEN <<cur>> \o split_sep_from(SubSeq(s, Len(sep) + 1, Len(s)), sep, <<>>)
       ELSE split_sep_from(Tail(s), sep, Append(cur, Head(s)))

split_sep(s, sep) == split_sep_from(s, sep, <<>>)

\* str.split() without argument: the maximal runs of non-whitespace.
RECURSIVE split_ws_from(_, _)
split_ws_from(s, cur) ==
  IF s = <<>> THEN (IF cur = <<>> THEN <<>> ELSE <<cur>>)
  ELSE IF Head(s) \in Whitespace
       THEN (IF cur = <<>> THEN <<>> ELSE <<cur>>) \o split_ws_from(Tail(s), <<>>)
       ELSE split_ws_from(Tail(s), Append(cur, Head(s)))

split_ws(s) == split_ws_from(s, <<>>)

\* Iterating a text file: each line with its terminating newline, and a last
\* unterminated line when the text does not end in a newline.
RECURSIVE file_lines_from(_, _)
file_lines_from(s, cur) ==
  IF s = <<>> THEN (IF cur = <<>> THEN <<>> ELSE <<cur>>)
  ELSE IF Head(s) = NL
       THEN <<Append(cur, NL)>> \o file_lines_from(Tail(s), <<>>)
       ELSE file_lines_from(Tail(s), Append(cur, Head(s)))

file_lines(s) == file_lines_from(s, <<>>)

RECURSIVE Concat(_)
Concat(ss) == IF ss = <<>> THEN <<>> ELSE Head(ss) \o Concat(Tail(ss))

SeqsUpTo(S, n) == UNION {[1..k -> S] : k \in 0..n}

(***************************************************************************)
(* Candidate Filter (main.py, filter_text and get_candidate_names).        *)
(***************************************************************************)
\* The bound taken as strict: a text of exactly MaxWords words is dropped.
filter_text_strict(text) ==
  /\ strip(text) # <<>>
  /\ Len(split_ws(text)) < MaxWords

filter_text(text) ==
  /\ strip(text) # <<>>
  /\ Len(split_ws(text)) <= MaxWords

RECURSIVE get_candidate_names(_)
get_candidate_names(leaf_nodes_text) ==
  IF leaf_nodes_text = <<>> THEN <<>>
  ELSE (IF filter_text(Head(leaf_nodes_text)) THEN <<Head(leaf_nodes_text)>> ELSE <<>>)
       \o get_candidate_names(Tail(leaf_nodes_text))

(***************************************************************************)
(* Batch Classifier (main.py, model_inference).  The tokenizer pads every  *)
(* item of a batch to the longest item and returns an attention mask; the  *)
(* frozen model labels an item from its unmasked tokens.  positive is the  *)
(* set of token sequences whose argmax is the positive class.              *)
(***************************************************************************)
PAD == "[PAD]"

Min(a, b) == IF a <= b THEN a ELSE b

MaxLen(batch) ==
  IF batch = <<>> THEN 0
  ELSE CHOOSE w \in {Len(batch[k]) : k \in 1..Len(batch)} :
         \A k \in 1..Len(batch) : Len(batch[k]) <= w

tokenizer(batch) ==
  LET w == MaxLen(batch) IN
  [input_ids |-> [k \in 1..Len(batch) |->
                    [j \in 1..w |-> IF j <= Len(batch[k]) THEN batch[k][j] ELSE PAD]],
   attention_mask |-> [k \in 1..Len(batch) |->
                    [j \in 1..w |-> IF j <= Len(batch[k]) THEN 1 ELSE 0]]]

RECURSIVE Unmasked(_, _)
Unmasked(ids, mask) ==
  IF ids = <<>> THEN <<>>
  ELSE (IF Head(mask) = 1 THEN <<Head(ids)>> ELSE <<>>) \o Unmasked(Tail(ids), Tail(mask))

\* outputs.logits.argmax(axis=1).tolist()
is_furniture(tokenized, positive) ==
  [k \in 1..Len(tokenized.input_ids) |->
     IF Unmasked(tokenized.input_ids[k], tokenized.attention_mask[k]) \in positive
     THEN 1 ELSE 0]

\* [batch[i] for i in range(len(batch)) if is_furniture[i]]
keep_positive(batch, labels) ==
  LET pairs == [k \in 1..Len(batch) |-> <<batch[k], labels[k]>>]
      IsPositive(p) == p[2] # 0
      kept == SelectSeq(pairs, IsPositive)
  IN [k \in 1..Len(kept) |-> kept[k][1]]

\* for i in range(0, len(names), B): one tokenizer and one model call per
\* batch names[i : i + B]; i is the 0-based start of the batch.
\* The slice taken one short: names[i : i + B - 1].
RECURSIVE inference_loop_short(_, _, _, _, _)
inference_loop_short(names, B, positive, i, acc) ==
  IF i >= Len(names) THEN acc
  ELSE LET batch == SubSeq(names, i + 1, Min(i + B - 1, Len(names)))
           labels == is_furniture(tokenizer(batch), positive)
       IN inference_loop_short(names, B, positive, i + B,
            [product_names |-> acc.product_names \o keep_positive(batch, labels),
             calls |-> acc.calls + 1])

RECURSIVE inference_loop(_, _, _, _, _)
inference_loop(names, B, positive, i, acc) ==
  IF i >= Len(names) THEN acc
  ELSE LET batch == SubSeq(names, i + 1, Min(i + B, Len(names)))
           labels == is_furniture(tokenizer(batch), positive)
       IN inference_loop(names, B, positive, i + B,
            [product_names |-> acc.product_names \o keep_positive(batch, labels),
             calls |-> acc.calls + 1])

model_inference_B(names, B, positive) ==
  inference_loop(names, B, positive, 0, [product_names |-> <<>>, calls |-> 0])

model_inference(names, positive) ==
  model_inference_B(names, BATCH_SIZE, positive).product_names

(***************************************************************************)
(* Page Scraper (main.py, scrape_product_names).  The browser and the page *)
(* are the environment: page.leaves is what the leaf-text script returns,  *)
(* page.positive the texts the model labels positive, and fault says which *)
(* step raises which exception, if any.                                    *)
(***************************************************************************)
Steps == {"navigate", "wait", "extract", "filter", "classify"}

BrowserSteps == {"navigate", "wait", "extract"}

BrowserExceptions ==
  {"TimeoutException", "StaleElementReferenceException", "WebDriverException"}

OtherException == "Exception"

NoFault == [step |-> "none", exc |-> "none"]

Faults ==
  {NoFault}
  \cup [step : BrowserSteps, exc : BrowserExceptions]
  \cup [step : Steps, exc : {OtherException}]

Return(v) == [kind |-> "return", none |-> FALSE, value |-> v, exc |-> "none"]

ReturnNone == [kind |-> "return", none |-> TRUE, value |-> <<>>, exc |-> "none"]

Raise(e) == [kind |-> "raise", none |-> FALSE, value |-> <<>>, exc |-> e]

scrape_product_names(page, fault) ==
  IF fault = NoFault
  THEN Return(model_inference(get_candidate_names(page.leaves), page.positive))
  ELSE IF fault.exc \in {"TimeoutException", "StaleElementReferenceException"}
  THEN ReturnNone
  ELSE IF fault.exc = "WebDriverException"
  THEN ReturnNone
  ELSE Raise(fault.exc)

\* if product_names: (None and the empty list are both falsy)
truthy(r) == r.kind = "return" /\ ~r.none /\ r.value # <<>>

RECURSIVE name_lines(_)
name_lines(product_names) ==
  IF product_names = <<>> THEN <<>>
  ELSE Head(product_names) \o <<NL>> \o name_lines(Tail(product_names))

\* The `if product_names:` test left out: the marker line is written for
\* every URL.
block_unguarded(url, r) ==
  <<NL>> \o Marker \o <<" ">> \o url \o <<NL>> \o name_lines(r.value)

\* What one iteration writes to output_file.
block(url, r) ==
  IF truthy(r)
  THEN <<NL>> \o Marker \o <<" ">> \o url \o <<NL>> \o name_lines(r.value)
  ELSE <<>>

(***************************************************************************)
(* Search Indexer (swhoosh.py, add_data_to_index).  A document is a        *)
(* record [url, content]; the index is the sequence of committed           *)
(* documents.  fault says where an exception is raised: opening the index, *)
(* opening the file, or reading line `at` of the file.                     *)
(***************************************************************************)
NoIndexFault == [kind |-> "none", at |-> 0]

IndexFaults(file) ==
  {NoIndexFault, [kind |-> "open_dir", at |-> 0], [kind |-> "open", at |-> 0]}
  \cup {[kind |-> "read", at |-> k] : k \in 1..Len(file_lines(file))}

\* current_url = line.split("URL:")[1].strip()
capture_url(line) == strip(split_sep(line, Marker)[2])

\* The body of `for line in file`, over lines j..stop, on the writer's
\* pending documents.
RECURSIVE index_loop(_, _, _, _, _)
index_loop(lines, j, stop, current_url, pending) ==
  IF j > stop THEN pending
  ELSE LET line == strip(lines[j]) IN
       IF startswith(line, Marker)
       THEN index_loop(lines, j + 1, stop, capture_url(line), pending)
       ELSE IF line # <<>>
       THEN index_loop(lines, j + 1, stop, current_url,
                       Append(pending, [url |-> current_url, content |-> line]))
       ELSE index_loop(lines, j + 1, stop, current_url, pending)

\* The documents the writer holds when the `with` block is left: all of the
\* file's, or those of the lines read before the exception.
writer_pending(file, fault) ==
  LET lines == file_lines(file) IN
  IF fault.kind \in {"open_dir", "open"} THEN <<>>
  ELSE index_loop(lines, 1,
                  IF fault.kind = "read" THEN fault.at - 1 ELSE Len(lines),
                  <<>>, <<>>)

\* The commit moved into a `finally`: it also runs after an exception.
add_data_to_index_finally(ix, file, fault) ==
  [index |-> ix \o writer_pending(file, fault), raised |-> FALSE]

\* writer.commit() is reached only when nothing was raised; `except
\* Exception` swallows whatever was.
add_data_to_index(ix, file, fault) ==
  IF fault.kind = "none"
  THEN [index |-> ix \o writer_pending(file, fault), raised |-> FALSE]
  ELSE [index |-> ix, raised |-> FALSE]

(***************************************************************************)
(* Inputs.                                                                 *)
(***************************************************************************)
RECURSIVE Words(_, _)
Words(n, sep) ==
  IF n = 0 THEN <<>>
  ELSE IF n = 1 THEN <<"w">>
  ELSE <<"w">> \o sep \o Words(n - 1, sep)

Long11 == Words(11, <<" ">>)

UrlPool == {<<"a">>, <<"a", "/">> \o Marker \o <<"b">>}

PagePool ==
  { [leaves |-> <<>>, positive |-> {}],
    [leaves |-> <<<<"n">>>>, positive |-> {}],
    [leaves |-> <<<<"n">>, Long11, <<"m">>>>, positive |-> {<<"n">>, <<"m">>, Long11}],
    [leaves |-> <<Marker \o <<"x">>, <<"m">>>>, positive |-> {Marker \o <<"x">>, <<"m">>}],
    [leaves |-> <<<<"n", NL, "m">>>>, positive |-> {<<"n", NL, "m">>}] }

LineA == Marker \o <<" ", "A", NL>>
LineB == Marker \o <<" ", "B", NL>>
LineAB == Marker \o <<" ", "A", "?">> \o Marker \o <<"B", NL>>

FilePool ==
  { <<>>,
    <<NL>> \o LineA \o <<"n", "1", NL, "n", "2", NL, NL>> \o LineB \o <<"n", "3", NL>>,
    <<"n", "0", NL>> \o LineA \o <<" ", "n", "1", " ", NL>>,
    <<NL>> \o LineAB \o <<"n", "1", NL>>,
    LineA \o LineB \o <<"n", "3">> }

FilterTexts ==
  {Words(n, <<" ">>) : n \in 0..MaxWordsIn}
  \cup {<<" ", NL>> \o Words(n, <<NL, " ">>) \o <<"\t">> : n \in 0..MaxWordsIn}

ClassifierItems == {<<"n">>, <<"m", "m">>}

LongList(n) == [k \in 1..n |-> IF k % 2 = 1 THEN <<"n">> ELSE <<"m", "m">>]

\* Short lists under every small batch size, and lists around the batch
\* boundaries of the program's own BATCH_SIZE.
ClassifierInputs ==
  (SeqsUpTo(ClassifierItems, MaxCandidates) \X ((1..MaxBatch) \cup {BATCH_SIZE}))
  \cup ({LongList(n) : n \in {BATCH_SIZE, BATCH_SIZE + 1, 2 * BATCH_SIZE + 1}}
        \X {BATCH_SIZE})

(***************************************************************************)
(* State.                                                                  *)
(***************************************************************************)
VARIABLES
  pc,                \* position of the program
  urls,              \* produce_output: the URL list read from URLS_FILE
  i,                 \* produce_output: 0-based position of the loop
  output_file,       \* everything written to the output file handle
  disk,              \* the part of output_file that has reached the file
  progress_bar,      \* every value given to progress_bar.progress
  status_text,       \* the last status string, as <<position, total>>
  results,           \* per handled position: what the URL's processing did
  index,             \* the committed documents of the index directory
  ixlog,             \* per add_data_to_index call: the file and the fault
  leaf_nodes_text,   \* get_candidate_names: argument
  candidate_names,   \* get_candidate_names: result
  names,             \* model_inference: argument
  batch_size,        \* model_inference: the batch size
  positive,          \* model_inference: texts the model labels positive
  product_names,     \* model_inference: result
  calls              \* model_inference: tokenizer/model invocations

vars == <<pc, urls, i, output_file, disk, progress_bar, status_text, results,
          index, ixlog, leaf_nodes_text, candidate_names, names, batch_size,
          positive, product_names, calls>>

runVars == <<urls, i, output_file, disk, progress_bar, status_text, results>>

indexVars == <<index, ixlog>>

filterVars == <<leaf_nodes_text, candidate_names>>

inferVars == <<names, batch_size, positive, product_names, calls>>

InitRun(us) ==
  /\ urls = us
  /\ i = 0
  /\ output_file = <<>>
  /\ disk = <<>>
  /\ progress_bar = <<>>
  /\ status_text = <<0, 0>>
  /\ results = <<>>

InitIndex ==
  /\ index = <<>>
  /\ ixlog = <<>>

InitFilter(texts) ==
  /\ leaf_nodes_text = texts
  /\ candidate_names = <<>>

InitInfer(ns, B, pos) ==
  /\ names = ns
  /\ batch_size = B
  /\ positive = pos
  /\ product_names = <<>>
  /\ calls = 0

(***************************************************************************)
(* Run Orchestrator (main.py, produce_output).                             *)
(***************************************************************************)
\* open(output_file_path, "w"), urls = file.read().splitlines(),
\* progress_bar = st.progress(0)
Start ==
  /\ pc = "idle"
  /\ pc' = "processing"
  /\ i' = 0
  /\ output_file' = <<>>
  /\ disk' = <<>>
  /\ progress_bar' = <<<<0, 1>>>>
  /\ UNCHANGED <<urls, status_text, results, indexVars, filterVars, inferVars>>

ResultOf(fault, r) ==
  [kind |-> IF fault = NoFault THEN "names"
            ELSE IF fault.exc \in BrowserExceptions THEN "browser_error"
            ELSE "exception",
   step |-> fault.step,
   names |-> r.value]

\* One iteration of `for i, url in enumerate(urls)`.  An exception that is
\* not a WebDriverException leaves the loop and both `with` blocks, which
\* closes the output file.  The handle is buffered: after a write the
\* runtime may or may not have passed the buffer on to the file.
ProcessUrl ==
  /\ pc = "processing"
  /\ i < Len(urls)
  /\ \E page \in PagePool, fault \in Faults, spill \in BOOLEAN :
       LET url == urls[i + 1]
           r == scrape_product_names(page, fault)
       IN IF r.kind = "raise" /\ r.exc \notin BrowserExceptions
          THEN /\ pc' = "aborted"
               /\ disk' = output_file
               /\ results' = Append(results, ResultOf(fault, r))
               /\ UNCHANGED <<urls, i, output_file, progress_bar, status_text>>
          ELSE /\ output_file' = output_file \o block(url, r)
               /\ disk' = IF spill THEN output_file' ELSE disk
               /\ progress_bar' = Append(progress_bar, <<i + 1, Len(urls)>>)
               /\ status_text' = <<i + 1, Len(urls)>>
               /\ i' = i + 1
               /\ results' = Append(results, ResultOf(fault, r))
               /\ UNCHANGED <<pc, urls>>
  /\ UNCHANGED <<indexVars, filterVars, inferVars>>

\* The loop is exhausted: leaving the `with` blocks closes the output file.
Finish ==
  /\ pc = "processing"
  /\ i = Len(urls)
  /\ pc' = "done"
  /\ disk' = output_file
  /\ UNCHANGED <<urls, i, output_file, progress_bar, status_text, results,
                 indexVars, filterVars, inferVars>>

\* The process dies during the run: what is still buffered never reaches
\* the file.
Crash ==
  /\ pc = "processing"
  /\ pc' = "crashed"
  /\ UNCHANGED <<runVars, indexVars, filterVars, inferVars>>

(***************************************************************************)
(* "Index Data" (Welcome.py, main): add_data_to_index per output file.     *)
(***************************************************************************)
AddDataToIndex(file) ==
  \E fault \in IndexFaults(file) :
    LET r == add_data_to_index(index, file, fault) IN
    /\ index' = r.index
    /\ ixlog' = Append(ixlog, [file |-> file, fault |-> fault])
    /\ pc' = IF r.raised THEN "index_aborted" ELSE pc
    /\ UNCHANGED <<runVars, filterVars, inferVars>>

\* The artifact of the finished run is indexed into the fresh index.
IndexArtifact ==
  /\ pc = "done"
  /\ ixlog = <<>>
  /\ AddDataToIndex(disk)

\* The files of the output directory are indexed one after the other.
IndexData ==
  /\ pc = "indexing"
  /\ Len(ixlog) < MaxFiles
  /\ \E file \in FilePool : AddDataToIndex(file)

(***************************************************************************)
(* The pure stages, applied to inputs drawn in the initial state.          *)
(***************************************************************************)
GetCandidateNames ==
  /\ pc = "filter"
  /\ pc' = "filtered"
  /\ candidate_names' = get_candidate_names(leaf_nodes_text)
  /\ UNCHANGED <<leaf_nodes_text, runVars, indexVars, inferVars>>

ModelInference ==
  /\ pc = "infer"
  /\ pc' = "inferred"
  /\ LET r == model_inference_B(names, batch_size, positive) IN
       /\ product_names' = r.product_names
       /\ calls' = r.calls
  /\ UNCHANGED <<names, batch_size, positive, runVars, indexVars, filterVars>>

(***************************************************************************)
(* Specifications.                                                         *)
(***************************************************************************)
Init ==
  /\ pc = "idle"
  /\ \E us \in SeqsUpTo(UrlPool, MaxUrls) : InitRun(us)
  /\ InitIndex
  /\ InitFilter(<<>>)
  /\ InitInfer(<<>>, BATCH_SIZE, {})

Next == Start \/ ProcessUrl \/ Finish \/ Crash \/ IndexArtifact

Spec == Init /\ [][Next]_vars

InitIndexer ==
  /\ pc = "indexing"
  /\ InitRun(<<>>)
  /\ InitIndex
  /\ InitFilter(<<>>)
  /\ InitInfer(<<>>, BATCH_SIZE, {})

NextIndexer == IndexData

SpecIndexer == InitIndexer /\ [][NextIndexer]_vars

InitFilterSpec ==
  /\ pc = "filter"
  /\ InitRun(<<>>)
  /\ InitIndex
  /\ \E texts \in SeqsUpTo(FilterTexts, MaxFilterList) : InitFilter(texts)
  /\ InitInfer(<<>>, BATCH_SIZE, {})

NextFilter == GetCandidateNames

SpecFilter == InitFilterSpec /\ [][NextFilter]_vars

InitClassifier ==
  /\ pc = "infer"
  /\ InitRun(<<>>)
  /\ InitIndex
  /\ InitFilter(<<>>)
  /\ \E in \in ClassifierInputs, pos \in SUBSET ClassifierItems :
       InitInfer(in[1], in[2], pos)

NextClassifier == ModelInference

SpecClassifier == InitClassifier /\ [][NextClassifier]_vars

(***************************************************************************)
(* Reference definitions used by the properties.                           *)
(***************************************************************************)
Yielded(res) == res.kind = "names" /\ res.names # <<>>

\* A blank line, the marker line of the URL, one line per name.
ExpectedBlock(url, ns) ==
  <<NL>> \o Marker \o <<" ">> \o url \o <<NL>>
  \o Concat([j \in 1..Len(ns) |-> ns[j] \o <<NL>>])

\* The blocks of the handled positions that yielded names, in list order.
ExpectedArtifact ==
  Concat([k \in 1..Len(results) |->
            IF Yielded(results[k]) THEN ExpectedBlock(urls[k], results[k].names)
            ELSE <<>>])

\* The same artifact line by line.
ExpectedLines ==
  Concat([k \in 1..Len(results) |->
            IF Yielded(results[k])
            THEN <<<<>>, Marker \o <<" ">> \o urls[k]>> \o results[k].names
            ELSE <<>>])

Chomp(line) ==
  IF line # <<>> /\ line[Len(line)] = NL THEN SubSeq(line, 1, Len(line) - 1) ELSE line

LinesOf(text) == [j \in 1..Len(file_lines(text)) |-> Chomp(file_lines(text)[j])]

\* The (url, name) pairs of the RunResult.
ExpectedPairs ==
  Concat([k \in 1..Len(results) |->
            IF Yielded(results[k])
            THEN [j \in 1..Len(results[k].names) |->
                    [url |-> urls[k], content |-> results[k].names[j]]]
            ELSE <<>>])

Range(f) == {f[x] : x \in DOMAIN f}

Count(d, docs) == Cardinality({k \in 1..Len(docs) : docs[k] = d})

SameMultiset(a, b) == \A d \in Range(a) \cup Range(b) : Count(d, a) = Count(d, b)

\* Leftmost matching of a[lo..hi] in b from position start on: the position
\* after the last match, or Len(b) + 2 when some element finds no match.
RECURSIVE GreedyEnd(_, _, _, _, _)
GreedyEnd(a, b, lo, hi, start) ==
  IF lo > hi THEN start
  ELSE IF lo = hi
  THEN LET js == {j \in start..Len(b) : b[j] = a[lo]} IN
       IF js = {} THEN Len(b) + 2
       ELSE (CHOOSE j \in js : \A j2 \in js : j <= j2) + 1
  ELSE LET mid == (lo + hi) \div 2
           next == GreedyEnd(a, b, lo, mid, start)
       IN IF next > Len(b) + 1 THEN next ELSE GreedyEnd(a, b, mid + 1, hi, next)

IsSubsequence(a, b) == GreedyEnd(a, b, 1, Len(a), 1) <= Len(b) + 1

\* Words counted by their first characters.
WordCount(t) ==
  Cardinality({j \in 1..Len(t) :
                 t[j] \notin Whitespace /\ (j = 1 \/ t[j - 1] \in Whitespace)})

Retained(t) == (\E j \in 1..Len(t) : t[j] \notin Whitespace) /\ WordCount(t) <= 10

\* The documents of an artifact file as the indexer's contract states them:
\* one per non-blank, non-marker line, carrying the nearest preceding
\* marker line without its marker prefix.
ContractDocs(file) ==
  LET lines == [j \in 1..Len(file_lines(file)) |-> strip(file_lines(file)[j])]
      IsMarker(j) == startswith(lines[j], Marker)
      UrlAt(j) ==
        LET ms == {m \in 1..(j - 1) : IsMarker(m)} IN
        IF ms = {} THEN <<>>
        ELSE LET m == CHOOSE x \in ms : \A y \in ms : y <= x
             IN strip(SubSeq(lines[m], Len(Marker) + 1, Len(lines[m])))
  IN Concat([j \in 1..Len(lines) |->
               IF lines[j] # <<>> /\ ~IsMarker(j)
               THEN <<[url |-> UrlAt(j), content |-> lines[j]]>>
               ELSE <<>>])

FileDocs(file) == writer_pending(file, NoIndexFault)

(***************************************************************************)
(* Properties.                                                             *)
(***************************************************************************)

\* C1: a browser error while handling URL[k] does not end the run, the
\* handle holds no block for URL[k] and holds, in order, the block of every
\* other handled URL that yielded names; a finished run has handled every
\* position and its file is what the handle was given.
C1_FaultIsolation ==
  (\E k \in 1..Len(results) : results[k].kind = "browser_error") =>
     /\ \A k \in 1..Len(results) :
          results[k].kind = "browser_error" =>
            /\ results[k].names = <<>>
            /\ (pc = "aborted" => k < Len(results))
            /\ (pc = "processing" => i >= k)
     /\ output_file = ExpectedArtifact
     /\ (pc = "done" => Len(results) = Len(urls) /\ disk = ExpectedArtifact)

C1_Witness ==
  /\ pc = "done"
  /\ \E k, m \in 1..Len(results) :
       /\ k < m
       /\ results[k].kind = "browser_error"
       /\ Yielded(results[m])
  /\ disk # <<>>

\* C2: while the run is processing, and after a crash during it, the file
\* holds the blocks of all handled URLs that yielded names.
C2_PerUrlDurability ==
  pc \in {"processing", "crashed"} => disk = ExpectedArtifact

\* C3: no exception raised while handling one URL ends the run.
C3_AnyExceptionNonFatal ==
  pc # "aborted"

\* C4: the artifact of a finished run is the concatenation of the blocks of
\* the yielding positions, and its lines are, per block, a blank line, the
\* marker line and one line per name.
C4_ArtifactFormat ==
  pc = "done" =>
    /\ disk = ExpectedArtifact
    /\ LinesOf(disk) = ExpectedLines

\* C5: the index holds, per ingested file and in file order, exactly the
\* documents of the indexer's contract.
C5_ParseInvariant ==
  index = Concat([k \in 1..Len(ixlog) |->
                    IF ixlog[k].fault = NoIndexFault
                    THEN ContractDocs(ixlog[k].file) ELSE <<>>])

\* C6: an exception during the ingestion of a file does not reach the
\* caller, leaves none of that file's documents in the index, and every
\* file ingested without an exception has all of its documents committed.
C6_PerFileIsolation ==
  /\ pc # "index_aborted"
  /\ index = Concat([k \in 1..Len(ixlog) |->
                       IF ixlog[k].fault = NoIndexFault
                       THEN FileDocs(ixlog[k].file) ELSE <<>>])

C6_Witness ==
  \E k, m \in 1..Len(ixlog) :
    /\ k < m
    /\ ixlog[k].fault.kind = "read"
    /\ writer_pending(ixlog[k].file, ixlog[k].fault) # <<>>
    /\ ixlog[m].fault = NoIndexFault
    /\ FileDocs(ixlog[m].file) # <<>>
    /\ index = FileDocs(ixlog[m].file)

\* C7: the batched result is the result of classifying the whole list as
\* one chunk, is a subsequence of the input, and an empty list gives an
\* empty result without any tokenizer or model call.
C7_BatchingInvariant ==
  pc = "inferred" =>
    /\ product_names = keep_positive(names, is_furniture(tokenizer(names), positive))
    /\ IsSubsequence(product_names, names)
    /\ (names = <<>> => product_names = <<>> /\ calls = 0)

C7_Witness ==
  /\ pc = "inferred"
  /\ Len(names) > batch_size
  /\ calls >= 2
  /\ product_names # <<>>
  /\ product_names # names

\* C8: the Candidate Filter keeps, in order, exactly the texts that are not
\* blank and have at most 10 words.
C8_CandidateFilter ==
  pc = "filtered" =>
    /\ candidate_names = SelectSeq(leaf_nodes_text, Retained)
    /\ IsSubsequence(candidate_names, leaf_nodes_text)

C8_Witness ==
  /\ pc = "filtered"
  /\ Len(leaf_nodes_text) = 2
  /\ WordCount(leaf_nodes_text[1]) = 11
  /\ WordCount(leaf_nodes_text[2]) = 10
  /\ candidate_names = <<leaf_nodes_text[2]>>

\* C9: the positions are handled once each in list order, progress
\* (k)/n is reported after the k-th handled position whatever its outcome,
\* and a finished run has handled every position.
C9_Sequencing ==
  /\ \A k \in 1..Len(results) :
       /\ Len(progress_bar) >= k + 1
       /\ progress_bar[k + 1] = <<k, Len(urls)>>
  /\ (pc = "done" => Len(results) = Len(urls))
  /\ pc \in {"idle", "processing", "done", "crashed"}

\* C10: indexing the artifact of a finished run into the fresh index gives
\* exactly the (url, name) pairs of the run.
C10_RoundTrip ==
  (pc = "done" /\ ixlog # <<>> /\ ixlog[1].fault = NoIndexFault) =>
     SameMultiset(index, ExpectedPairs)

====
